---- MODULE Spec2Model ----
(***************************************************************************)
(* Model of scripts/fetch-nate-resources.py: the URL normaliser, the       *)
(* capture store, the main sync (main) and the re-fetch mode               *)
(* (rescrape_notion).  URLs and post contents are TLA+ strings; the        *)
(* regular expressions of the script are evaluated on their characters.    *)
(***************************************************************************)
EXTENDS Integers, Sequences, FiniteSets, TLC

(***************************************************************************)
(* String helpers (Python str operations used by the script).              *)
(***************************************************************************)

\* s[i] for a 1-based index, "" outside the string
Ch(s, i) == IF i >= 1 /\ i <= Len(s) THEN SubSeq(s, i, i) ELSE ""

\* s[i:].startswith(lit)
StartsAt(s, i, lit) ==
    /\ i >= 1
    /\ i + Len(lit) - 1 <= Len(s)
    /\ SubSeq(s, i, i + Len(lit) - 1) = lit

\* Python's `lit in s`
Contains(s, lit) == \E i \in 1..Len(s) : StartsAt(s, i, lit)

\* least element of a non-empty set of integers
MinOf(S) == CHOOSE x \in S : \A y \in S : x <= y

\* greatest element of a non-empty set of integers
MaxOf(S) == CHOOSE x \in S : \A y \in S : x >= y

\* s.find(lit, from): the first index >= from where lit starts, 0 if none
FindFrom(s, lit, from) ==
    LET hits == {i \in from..Len(s) : StartsAt(s, i, lit)}
    IN  IF hits = {} THEN 0 ELSE MinOf(hits)

LowerChars ==
    {"a", "b", "c", "d", "e", "f", "g", "h", "i", "j", "k", "l", "m",
     "n", "o", "p", "q", "r", "s", "t", "u", "v", "w", "x", "y", "z"}

UpperChars ==
    {"A", "B", "C", "D", "E", "F", "G", "H", "I", "J", "K", "L", "M",
     "N", "O", "P", "Q", "R", "S", "T", "U", "V", "W", "X", "Y", "Z"}

DigitChars == {"0", "1", "2", "3", "4", "5", "6", "7", "8", "9"}

\* the class [a-f0-9]
HexChars == {"a", "b", "c", "d", "e", "f"} \cup DigitChars

\* the class [a-zA-Z0-9_-]
IdChars == LowerChars \cup UpperChars \cup DigitChars \cup {"_", "-"}

\* \w, which decides the word boundary \b
WordChars == LowerChars \cup UpperChars \cup DigitChars \cup {"_"}

\* length of the Notion id, the {32} of the pattern
HexLen == 32

\* the end of the longest run of characters of class cls starting at i
\* (i - 1 when s[i] is not in cls): a greedy cls* from i
RunEnd(s, i, cls) ==
    LET stops == {j \in i..(Len(s) + 1) : Ch(s, j) \notin cls}
    IN  MinOf(stops) - 1

(***************************************************************************)
(* normalize_url                                                           *)
(***************************************************************************)

\* re.search(r"([a-f0-9]{32})\b", url): the start of the leftmost match, 0 if none
HexIdMatch(url) ==
    LET hits == {i \in 1..(Len(url) - HexLen + 1) :
                    /\ \A j \in i..(i + HexLen - 1) : Ch(url, j) \in HexChars
                    /\ Ch(url, i + HexLen) \notin WordChars}
    IN  IF hits = {} THEN 0 ELSE MinOf(hits)

\* re.search(prefix + r"([a-zA-Z0-9_-]+)", url) for a literal prefix:
\* the start of the group of the leftmost match, 0 if none
IdAfter(url, prefixes) ==
    LET hits == {i \in 1..Len(url) :
                    \E p \in prefixes :
                        /\ StartsAt(url, i, p)
                        /\ Ch(url, i + Len(p)) \in IdChars}
    IN  IF hits = {} THEN 0
        ELSE LET i == MinOf(hits)
                 p == CHOOSE q \in prefixes :
                          StartsAt(url, i, q) /\ Ch(url, i + Len(q)) \in IdChars
             IN  i + Len(p)

\* the group ([a-zA-Z0-9_-]+) starting at g (greedy)
IdGroup(url, g) == SubSeq(url, g, RunEnd(url, g, IdChars))

normalize_url(url) ==
    LET h == HexIdMatch(url)
        d == IdAfter(url, {"/d/"})
        f == IdAfter(url, {"/folders/", "/d/"})
    IN  IF h # 0 /\ Contains(url, "notion")
        THEN <<"notion", SubSeq(url, h, h + HexLen - 1)>>
        ELSE IF d # 0 /\ Contains(url, "google.com")
        THEN <<IF Contains(url, "spreadsheets") THEN "gsheet" ELSE "gdoc",
               IdGroup(url, d)>>
        ELSE IF Contains(url, "drive.google.com") /\ f # 0
        THEN <<"gdrive", IdGroup(url, f)>>
        ELSE <<"other", url>>

(***************************************************************************)
(* urllib.parse.urlparse, as far as the script reads it                    *)
(***************************************************************************)

\* index of the first character of the netloc: after "://", 0 without a scheme
NetlocStart(url) ==
    LET c == FindFrom(url, "://", 1)
    IN  IF c = 0 THEN 0 ELSE c + 3

\* index one past the netloc: the first of / ? # after it, or the end
NetlocEnd(url) ==
    LET s == NetlocStart(url)
        stops == {j \in s..(Len(url) + 1) : Ch(url, j) \in {"/", "?", "#", ""}}
    IN  MinOf(stops)

\* parsed.hostname: the netloc without user info and port (hosts are lower case)
Hostname(url) ==
    IF NetlocStart(url) = 0 THEN ""
    ELSE LET s == NetlocStart(url)
             e == NetlocEnd(url) - 1
             ats == {j \in s..e : Ch(url, j) = "@"}
             hs == IF ats = {} THEN s ELSE MaxOf(ats) + 1
             colons == {j \in hs..e : Ch(url, j) = ":"}
             he == IF colons = {} THEN e ELSE MinOf(colons) - 1
         IN  SubSeq(url, hs, he)

\* parsed.path: from the end of the netloc (from the start, without a scheme)
\* to the first ? or #
UrlPath(url) ==
    LET s == IF NetlocStart(url) = 0 THEN 1 ELSE NetlocEnd(url)
        stops == {j \in s..(Len(url) + 1) : Ch(url, j) \in {"?", "#", ""}}
    IN  SubSeq(url, s, MinOf(stops) - 1)

\* s.replace(old, ""): every occurrence removed, left to right
RECURSIVE RemoveAll(_, _)
RemoveAll(s, old) ==
    LET i == FindFrom(s, old, 1)
    IN  IF i = 0 THEN s
        ELSE SubSeq(s, 1, i - 1) \o RemoveAll(SubSeq(s, i + Len(old), Len(s)), old)

get_domain(url) == RemoveAll(Hostname(url), "www.")

(***************************************************************************)
(* url_to_filename                                                         *)
(***************************************************************************)

\* [p for p in s.split(sep) if p]: the non-empty pieces of s between sep
RECURSIVE SplitNonEmpty(_, _)
SplitNonEmpty(s, sep) ==
    IF s = "" THEN <<>>
    ELSE LET i == FindFrom(s, sep, 1)
         IN  IF i = 0 THEN <<s>>
             ELSE (IF i = 1 THEN <<>> ELSE <<SubSeq(s, 1, i - 1)>>)
                  \o SplitNonEmpty(SubSeq(s, i + Len(sep), Len(s)), sep)

\* s.split("?")[0]
BeforeQuestion(s) ==
    LET i == FindFrom(s, "?", 1)
    IN  IF i = 0 THEN s ELSE SubSeq(s, 1, i - 1)

\* re.sub(r"-[a-f0-9]{32}$", "", slug)
StripHexSuffix(slug) ==
    LET n == Len(slug)
    IN  IF /\ n >= HexLen + 1
           /\ Ch(slug, n - HexLen) = "-"
           /\ \A j \in (n - HexLen + 1)..n : Ch(slug, j) \in HexChars
        THEN SubSeq(slug, 1, n - HexLen - 1)
        ELSE slug

\* hashlib.md5(url.encode()).hexdigest()[:8].  The digest is not computed: it
\* is a symbol that is equal for equal URLs and different for different ones
\* (the truncated digest is taken to be collision-free on the URLs of a run).
Md5Hex8(url) == "md5(" \o url \o ")"

\* number of characters of the doc id kept in a file name, the [:12]
DocIdLen == 12

\* s[:n]
Prefix(s, n) == SubSeq(s, 1, IF Len(s) < n THEN Len(s) ELSE n)

url_to_filename(url, domain) ==
    LET url_hash == Md5Hex8(url)
        path_parts == SplitNonEmpty(UrlPath(url), "/")
        n == Len(path_parts)
        ds == {i \in 1..(n - 1) : path_parts[i] = "d"}
        safe_domain == \* domain.replace(".", "_")
            LET RECURSIVE Dots(_)
                Dots(s) == LET i == FindFrom(s, ".", 1)
                           IN  IF i = 0 THEN s
                               ELSE SubSeq(s, 1, i - 1) \o "_"
                                    \o Dots(SubSeq(s, i + 1, Len(s)))
            IN  Dots(domain)
    IN  IF domain \in {"notion.so", "notion.site"} /\ n > 0
        THEN "notion_" \o StripHexSuffix(BeforeQuestion(path_parts[n]))
             \o "_" \o url_hash
        ELSE IF domain = "docs.google.com" /\ ds # {}
        THEN (IF Contains(url, "spreadsheets") THEN "gsheet" ELSE "gdoc")
             \o "_" \o Prefix(path_parts[MinOf(ds) + 1], DocIdLen) \o "_" \o url_hash
        ELSE safe_domain \o "_" \o url_hash

(***************************************************************************)
(* The reference patterns of get_db_resource_urls                          *)
(***************************************************************************)

\* the characters that end a reference: the complement of [^\s\)\">\]]
StopChars == {" ", "\n", "\t", ")", "\"", ">", "]", ""}

\* https?://(?:www\.)?notion\.(?:so|site)/  written out as its literals
NotionPrefixes ==
    {"http://notion.so/", "https://notion.so/",
     "http://www.notion.so/", "https://www.notion.so/",
     "http://notion.site/", "https://notion.site/",
     "http://www.notion.site/", "https://www.notion.site/"}

\* https?://docs\.google\.com/(?:document|spreadsheets)/d/
GdocsPrefixes ==
    {"http://docs.google.com/document/d/", "https://docs.google.com/document/d/",
     "http://docs.google.com/spreadsheets/d/",
     "https://docs.google.com/spreadsheets/d/"}

\* pattern.findall(content) from index `from` on: the non-overlapping matches
\* of  <one of prefixes>[^\s\)\">\]]+  from left to right
RECURSIVE FindAllFrom(_, _, _)
FindAllFrom(content, prefixes, from) ==
    LET hits == {i \in from..Len(content) :
                    \E p \in prefixes :
                        /\ StartsAt(content, i, p)
                        /\ Ch(content, i + Len(p)) \notin StopChars}
    IN  IF hits = {} THEN <<>>
        ELSE LET i == MinOf(hits)
                 stops == {j \in i..(Len(content) + 1) : Ch(content, j) \in StopChars}
                 e == MinOf(stops) - 1
             IN  <<SubSeq(content, i, e)>> \o FindAllFrom(content, prefixes, e + 1)

\* a variant that cuts the reference at its query string
DropQuery(u) == BeforeQuestion(u)

\* u.rstrip(").,;")
RECURSIVE RStripPunct(_)
RStripPunct(u) ==
    IF u # "" /\ Ch(u, Len(u)) \in {")", ".", ",", ";"}
    THEN RStripPunct(SubSeq(u, 1, Len(u) - 1))
    ELSE u

\* the references of one post, in the order the loop visits them
PostRefs(content) ==
    FindAllFrom(content, NotionPrefixes, 1) \o FindAllFrom(content, GdocsPrefixes, 1)

(***************************************************************************)
(* sorted(..., key=url): Python compares strings by code point             *)
(***************************************************************************)

\* the printable ASCII characters in code-point order, from the space on
\* (without the backquote, which no URL of the model contains)
AsciiOrder ==
    " !\"#$%&'()*+,-./0123456789:;<=>?@ABCDEFGHIJKLMNOPQRSTUVWXYZ[\\]^_abcdefghijklmnopqrstuvwxyz{|}~"

\* rank of a character in AsciiOrder, which orders as ord(c) does; 0 for the
\* end of a string
Ord(c) == IF c = "" THEN 0 ELSE FindFrom(AsciiOrder, c, 1)

\* a < b for Python strings
StrLess(a, b) ==
    LET diffs == {j \in 1..(Len(a) + 1) : Ch(a, j) # Ch(b, j)}
    IN  diffs # {} /\ Ord(Ch(a, MinOf(diffs))) < Ord(Ch(b, MinOf(diffs)))

\* a variant that sorts in descending order of URL
RECURSIVE SortByUrlDescending(_)
SortByUrlDescending(d) ==
    IF DOMAIN d = {} THEN <<>>
    ELSE LET k == CHOOSE x \in DOMAIN d :
                      \A y \in DOMAIN d : ~StrLess(d[x].url, d[y].url)
         IN  <<k>> \o SortByUrlDescending([y \in DOMAIN d \ {k} |-> d[y]])

\* sorted(d.items(), key=lambda x: x[1]["url"]) as the sequence of the keys of d
RECURSIVE SortByUrl(_)
SortByUrl(d) ==
    IF DOMAIN d = {} THEN <<>>
    ELSE LET k == CHOOSE x \in DOMAIN d :
                      \A y \in DOMAIN d : ~StrLess(d[y].url, d[x].url)
         IN  <<k>> \o SortByUrl([y \in DOMAIN d \ {k} |-> d[y]])

(***************************************************************************)
(* Dictionaries, texts and metadata                                        *)
(***************************************************************************)

\* the empty dict
EmptyDict == [k \in {} |-> k]

\* d.get(f, default)
Get(d, f, default) == IF f \in DOMAIN d THEN d[f] ELSE default

\* d.update(e): the fields of e overwrite, the other fields of d stay
Update(d, e) ==
    [f \in DOMAIN d \cup DOMAIN e |-> IF f \in DOMAIN e THEN e[f] ELSE d[f]]

\* a variant that leaves nothing but the entry it sets
PutAlone(d, k, v) == [x \in {k} |-> v]

\* d with d[k] = v set
Put(d, k, v) == [x \in DOMAIN d \cup {k} |-> IF x = k THEN v ELSE d[x]]

\* A text is known by a tag for its characters (body) and by its length.
Text(b, n) == [none |-> FALSE, body |-> b, len |-> n]

\* Python's None where a text is expected
NoContent == [none |-> TRUE, body |-> "", len |-> 0]

\* content or ""
OrEmpty(content) == IF content.none \/ content.len = 0 THEN Text("", 0) ELSE content

\* Python's None where an error message is expected
NoError == ""

\* a .json file that json.loads rejects
CorruptJson == [json_error |-> TRUE]

\* minimal plausible length of the rendered HTML (fetch_notion)
MinHtmlLen == 500

\* minimal length of the normalised text (fetch_notion)
MinTextLen == 200

\* the rate limits of the loops, in milliseconds
DelayNotion == 2000

DelayHttp == 500

CDP_DOMAINS == {"notion.so", "notion.site"}

(***************************************************************************)
(* The inputs of the model: URLs, corpora, stores, assets, replies         *)
(***************************************************************************)

Hex32 == "0123456789abcdef0123456789abcdef"

\* the URL of the end-to-end scenario: a 32-hex id and a query string
UrlNotionQuery == "https://notion.so/My-Page-" \o Hex32 \o "?pvs=4"

\* the same page without the query string
UrlNotionBare == "https://notion.so/My-Page-" \o Hex32

\* a Notion page addressed without its id
UrlNotionNoId == "https://www.notion.so/Guide"

UrlGdoc == "https://docs.google.com/document/d/abc"

UrlElsewhere == "https://example.com/post"

PostQuery ==
    [asset_id |-> "p1", project_id |-> "j1", name |-> "Kit",
     content |-> "Kit: " \o UrlNotionQuery]

PostMixed ==
    [asset_id |-> "p2", project_id |-> "j1", name |-> "Links",
     content |-> "Read https://www.notion.so/Guide, then (" \o UrlGdoc
                 \o "). Again: " \o UrlNotionBare \o "."]

PostGdoc ==
    [asset_id |-> "p3", project_id |-> "j2", name |-> "Sheet",
     content |-> "Doc " \o UrlGdoc \o "; kit " \o UrlNotionQuery]

\* the corpora a behaviour starts from
Corpora == {<<PostQuery>>, <<PostMixed>>, <<PostGdoc, PostMixed>>}

\* a capture record written by an earlier run of the main sync
OldMeta(u) ==
    [url |-> u, domain |-> get_domain(u), link_text |-> u,
     source_post |-> [asset_id |-> "p0", title |-> "Old"],
     extracted_at |-> 0, content_length |-> 250, method |-> "cdp"]

OldText == Text("old", 250)

\* the capture stores a behaviour starts from, as [txt, json]
EmptyStore == [txt |-> EmptyDict, json |-> EmptyDict]

StoreBare ==
    LET fn == url_to_filename(UrlNotionBare, get_domain(UrlNotionBare))
        fe == url_to_filename(UrlElsewhere, get_domain(UrlElsewhere))
    IN  [txt |-> (fn :> OldText) @@ (fe :> OldText),
         json |-> (fn :> OldMeta(UrlNotionBare)) @@ (fe :> OldMeta(UrlElsewhere))
                  @@ ("manifest" :> [url |-> UrlGdoc]) @@ ("broken" :> CorruptJson)]

Stores == {EmptyStore, StoreBare}

AssetBare ==
    [id |-> "a1", name |-> "Kit page", published_url |-> UrlNotionBare,
     content |-> OldText]

AssetDraft ==
    [id |-> "a2", name |-> "Draft", published_url |-> "", content |-> OldText]

\* the Notion assets of the corpus a behaviour starts from
AssetLists == {<<>>, <<AssetDraft, AssetBare>>}

\* what the browser can answer to one fetch_html: a connection-level error, an
\* error response, or a page with the length of its HTML and the text that
\* html_to_markdown makes of it
Pages ==
    {[kind |-> "ws_error", html_len |-> 0, text |-> NoContent],
     [kind |-> "proto_error", html_len |-> 0, text |-> NoContent],
     [kind |-> "page", html_len |-> MinHtmlLen - 1, text |-> Text("v1", 300)],
     [kind |-> "page", html_len |-> MinHtmlLen, text |-> Text("tiny", MinTextLen - 1)],
     [kind |-> "page", html_len |-> MinHtmlLen, text |-> Text("v1", 300)]}

\* what the export endpoint can answer: a status (0: no answer at all) and a body
Replies ==
    {[status |-> 200, text |-> Text("csv", 40)],
     [status |-> 200, text |-> Text("", 0)],
     [status |-> 403, text |-> NoContent],
     [status |-> 500, text |-> NoContent],
     [status |-> 0, text |-> NoContent]}

\* what the network can answer to one fetch_resource: the answer of the
\* browser, or the answer of the export endpoint (the strategy reads one of them)
Answers ==
    {[page |-> p, reply |-> [status |-> 0, text |-> NoContent]] : p \in Pages}
    \cup {[page |-> [kind |-> "ws_error", html_len |-> 0, text |-> NoContent],
           reply |-> r] : r \in Replies}

\* the values of --domain (None: no filter)
DomainArgs == {"None", "notion"}

(***************************************************************************)
(* Discover and the covered set                                            *)
(***************************************************************************)

\* a variant in which the last occurrence of a key wins
RECURSIVE AddRefsLastWins(_, _, _, _)
AddRefsLastWins(urls, post, refs, j) ==
    IF j > Len(refs) THEN urls
    ELSE LET u == RStripPunct(refs[j])
             key == normalize_url(u)
             info == [url |-> u, post_asset_id |-> post.asset_id,
                      project_id |-> post.project_id, post_name |-> post.name]
         IN  AddRefsLastWins(Put(urls, key, info), post, refs, j + 1)

\* the inner loop of get_db_resource_urls over the references refs[j..] of post
RECURSIVE AddRefs(_, _, _, _)
AddRefs(urls, post, refs, j) ==
    IF j > Len(refs) THEN urls
    ELSE LET u == RStripPunct(refs[j])
             key == normalize_url(u)
             info == [url |-> u, post_asset_id |-> post.asset_id,
                      project_id |-> post.project_id, post_name |-> post.name]
         IN  AddRefs(IF key \notin DOMAIN urls THEN Put(urls, key, info) ELSE urls,
                     post, refs, j + 1)

\* the outer loop of get_db_resource_urls over the posts ps[n..]
RECURSIVE ScanPosts(_, _, _)
ScanPosts(urls, ps, n) ==
    IF n > Len(ps) THEN urls
    ELSE ScanPosts(AddRefs(urls, ps[n], PostRefs(ps[n].content), 1), ps, n + 1)

get_db_resource_urls(ps) == ScanPosts(EmptyDict, ps, 1)

\* a variant that keys the store by the raw URL of each record
get_scraped_keys_raw(json) ==
    {<<"other", Get(json[f], "url", "")>> :
        f \in {g \in DOMAIN json : g # "manifest" /\ "json_error" \notin DOMAIN json[g]}}

\* get_scraped_keys: the keys of the dict it returns (main reads only the keys)
get_scraped_keys(json) ==
    {normalize_url(Get(json[f], "url", "")) :
        f \in {g \in DOMAIN json : g # "manifest" /\ "json_error" \notin DOMAIN json[g]}}

(***************************************************************************)
(* The browser client and the fetch strategies                             *)
(***************************************************************************)

\* _cdp_client is None (opened is history: the channels this client has opened)
NoClient == [exists |-> FALSE, connected |-> FALSE, ws |-> "none", opened |-> 0]

\* CDPClient.connect on an existing client: returns when connected, opens the
\* channel when the browser answers, raises otherwise
connect(client, up) ==
    IF client.connected THEN [client |-> client, raised |-> FALSE]
    ELSE IF up THEN [client |-> [exists |-> TRUE, connected |-> TRUE, ws |-> "open",
                                 opened |-> client.opened + 1],
                     raised |-> FALSE]
    ELSE [client |-> client, raised |-> TRUE]

\* a variant that makes and connects a new client at every call
get_cdp_client_fresh(client, cdp_import, up) ==
    IF ~cdp_import THEN [client |-> client, ret |-> FALSE]
    ELSE LET made == [exists |-> TRUE, connected |-> FALSE, ws |-> "none",
                      opened |-> client.opened]
             c == connect(made, up)
         IN  [client |-> c.client, ret |-> ~c.raised]

\* get_cdp_client: the new value of _cdp_client and whether a client is returned
get_cdp_client(client, cdp_import, up) ==
    IF ~cdp_import THEN [client |-> client, ret |-> FALSE]
    ELSE IF ~client.exists
    THEN LET made == [exists |-> TRUE, connected |-> FALSE, ws |-> "none",
                      opened |-> 0]
             c == connect(made, up)
         IN  [client |-> c.client, ret |-> ~c.raised]
    ELSE [client |-> client, ret |-> TRUE]

\* CDPClient.fetch_html as the caller sees it: it raises or returns the page
fetch_html(client, up, page) ==
    LET c == connect(client, up)
    IN  IF c.raised THEN [client |-> c.client, raised |-> TRUE, page |-> page]
        ELSE IF c.client.ws = "dead"
        THEN [client |-> c.client, raised |-> TRUE, page |-> page]
        ELSE IF page.kind = "ws_error"
        THEN [client |-> [c.client EXCEPT !.ws = "dead"], raised |-> TRUE,
              page |-> page]
        ELSE IF page.kind = "proto_error"
        THEN [client |-> c.client, raised |-> TRUE, page |-> page]
        ELSE [client |-> c.client, raised |-> FALSE, page |-> page]

\* the result of a fetch strategy: (content, error), the new _cdp_client, and
\* whether an exception left the strategy instead
Result(content, error, client) ==
    [content |-> content, error |-> error, client |-> client, raised |-> FALSE]

\* a variant without the try/except around fetch_html
fetch_notion_unguarded(url, client, cdp_import, up, page) ==
    LET g == get_cdp_client(client, cdp_import, up)
    IN  IF ~g.ret THEN Result(NoContent, "CDP browser not available", g.client)
        ELSE LET r == fetch_html(g.client, up, page)
             IN  IF r.raised
                 THEN [content |-> NoContent, error |-> "CDP error",
                       client |-> r.client, raised |-> TRUE]
                 ELSE IF r.page.html_len < MinHtmlLen
                 THEN Result(NoContent, "Page did not load", r.client)
                 ELSE IF r.page.text.len < MinTextLen
                 THEN Result(NoContent, "No meaningful content found", r.client)
                 ELSE Result(r.page.text, NoError, r.client)

fetch_notion(url, client, cdp_import, up, page) ==
    LET g == get_cdp_client(client, cdp_import, up)
    IN  IF ~g.ret THEN Result(NoContent, "CDP browser not available", g.client)
        ELSE LET r == fetch_html(g.client, up, page)
             IN  IF r.raised THEN Result(NoContent, "CDP error", r.client)
                 ELSE IF r.page.html_len < MinHtmlLen
                 THEN Result(NoContent, "Page did not load", r.client)
                 ELSE IF r.page.text.len < MinTextLen
                 THEN Result(NoContent, "No meaningful content found", r.client)
                 ELSE Result(r.page.text, NoError, r.client)

fetch_gdoc(url, client, reply) ==
    IF IdAfter(url, {"/d/"}) = 0
    THEN Result(NoContent, "Could not extract doc ID", client)
    ELSE IF reply.status = 200 THEN Result(reply.text, NoError, client)
    ELSE IF reply.status = 403
    THEN Result(NoContent, "Access denied (requires login)", client)
    ELSE IF reply.status = 0 THEN Result(NoContent, "Error", client)
    ELSE Result(NoContent, "HTTP error", client)

fetch_resource(url, domain, client, cdp_import, up, page, reply) ==
    IF domain \in CDP_DOMAINS THEN fetch_notion(url, client, cdp_import, up, page)
    ELSE IF Contains(url, "docs.google.com") THEN fetch_gdoc(url, client, reply)
    ELSE Result(NoContent, "Unsupported domain", client)

\* a variant that never looks at the browser
check_cdp_skipped(cdp_import, up) == TRUE

\* check_cdp_available
check_cdp_available(cdp_import, up) == cdp_import /\ up

\* history: whether the browser mechanism was there when it was checked
Probed(cdp_import, up) == IF cdp_import /\ up THEN "up" ELSE "down"

(***************************************************************************)
(* State                                                                   *)
(***************************************************************************)

\* number of runs of the script in one behaviour
MaxRuns == 2

VARIABLES
    posts,                  \* the corpus: project_assets of type post
    assets,                 \* the corpus: the Notion promptkit/guide assets
    txt_files,              \* RESOURCES_DIR/<name>.txt: name -> text
    json_files,             \* RESOURCES_DIR/<name>.json: name -> metadata
    browser_up,             \* the debug endpoint of the browser answers
    CDP_AVAILABLE,          \* requests and websocket could be imported
    MARKDOWNIFY_AVAILABLE,  \* markdownify could be imported
    pc,                     \* where the running script is
    args,                   \* the parsed command line
    db_urls,                \* main: key -> reference
    scraped_keys,           \* main: the covered keys
    uncovered,              \* main: key -> reference, before and after the filter
    cdp_available,          \* main: the result of the browser check
    items,                  \* the items of the loop with the locals of their iteration
    i,                      \* the 1-based index of the loops
    extracted,              \* main: counter
    failed,                 \* both modes: counter
    skipped_cdp,            \* main: counter
    success,                \* re-fetch: counter
    content,                \* the text fetched for the item at hand
    cdp_client,             \* the global _cdp_client
    run,                    \* history: number of runs started
    fetched,                \* history: the URLs handed to a fetch strategy in this run
    failed_keys,            \* history: the keys whose fetch failed in this run
    written,                \* history: the metadata files written in this run
    sleeps,                 \* history: the time.sleep calls of this run, in ms
    probe,                  \* history: what the browser check of this run met
    store0,                 \* history: store and assets when this run started
    prev,                   \* history: the previous run
    nu                      \* the case at hand of the specifications of the pure functions

sync_vars ==
    <<posts, assets, txt_files, json_files, browser_up, CDP_AVAILABLE,
      MARKDOWNIFY_AVAILABLE, pc, args, db_urls, scraped_keys, uncovered,
      cdp_available, items, i, extracted, failed, skipped_cdp, success, content,
      cdp_client, run, fetched, failed_keys, written, sleeps, probe, store0, prev>>

vars == <<sync_vars, nu>>

\* the variables no step of a run changes but the one named
corpus_vars == <<posts, assets>>

store_vars == <<txt_files, json_files>>

env_vars == <<browser_up, CDP_AVAILABLE, MARKDOWNIFY_AVAILABLE>>

main_locals == <<db_urls, scraped_keys, uncovered, cdp_available, items>>

counters == <<extracted, failed, skipped_cdp, success>>

run_history == <<run, store0, prev>>

NoArgs == [rescrape |-> FALSE, dry_run |-> FALSE, domain |-> "None"]

\* the command lines of the model (--rescrape does not read --domain)
ArgsSet ==
    {a \in [rescrape : BOOLEAN, dry_run : BOOLEAN, domain : DomainArgs] :
        a.rescrape => a.domain = "None"}

\* what is installed: [cdp: requests and websocket, md: markdownify]
Imports ==
    {[cdp |-> TRUE, md |-> TRUE], [cdp |-> FALSE, md |-> TRUE],
     [cdp |-> TRUE, md |-> FALSE]}

\* the script is not running
Idle == pc \in {"idle", "done", "exit", "crash"}

\* what is remembered of a run when the next one starts
Summary ==
    [args |-> args, ended |-> pc, json0 |-> store0.json, extracted |-> extracted,
     failed |-> failed, skipped_cdp |-> skipped_cdp, failed_keys |-> failed_keys]

NoNu == [pc |-> "off", base |-> "", variant |-> "", key_base |-> <<>>,
         key_variant |-> <<>>]

\* before the first run: a corpus, a store, a browser and an installation
SyncInit(ps, as, st, up, im) ==
    /\ posts = ps
    /\ assets = as
    /\ txt_files = st.txt
    /\ json_files = st.json
    /\ store0 = [txt |-> st.txt, json |-> st.json, assets |-> as]
    /\ browser_up = up
    /\ CDP_AVAILABLE = im.cdp
    /\ MARKDOWNIFY_AVAILABLE = im.md
    /\ pc = "idle"
    /\ args = NoArgs
    /\ db_urls = EmptyDict
    /\ scraped_keys = {}
    /\ uncovered = EmptyDict
    /\ cdp_available = FALSE
    /\ items = <<>>
    /\ i = 1
    /\ extracted = 0
    /\ failed = 0
    /\ skipped_cdp = 0
    /\ success = 0
    /\ content = NoContent
    /\ cdp_client = NoClient
    /\ run = 0
    /\ fetched = <<>>
    /\ failed_keys = {}
    /\ written = <<>>
    /\ sleeps = <<>>
    /\ probe = "none"
    /\ prev = [args |-> NoArgs, ended |-> "idle", json0 |-> EmptyDict,
               extracted |-> 0, failed |-> 0, skipped_cdp |-> 0, failed_keys |-> {}]

Init ==
    /\ \E ps \in Corpora, as \in AssetLists, st \in Stores, up \in BOOLEAN,
          im \in Imports : SyncInit(ps, as, st, up, im)
    /\ nu = NoNu

(***************************************************************************)
(* The environment                                                         *)
(***************************************************************************)

\* the browser is started or stopped while the script runs; stopping it kills
\* an open channel
BrowserToggle ==
    /\ ~Idle
    /\ browser_up' = ~browser_up
    /\ cdp_client' = IF browser_up /\ cdp_client.ws = "open"
                     THEN [cdp_client EXCEPT !.ws = "dead"]
                     ELSE cdp_client
    /\ UNCHANGED <<corpus_vars, store_vars, CDP_AVAILABLE, MARKDOWNIFY_AVAILABLE,
                   pc, args, main_locals, i, counters, content, run_history,
                   fetched, failed_keys, written, sleeps, probe,
                   nu>>

\* the script is started: a new process with its arguments
StartRun(a) ==
    /\ Idle
    /\ run < MaxRuns
    /\ run' = run + 1
    /\ prev' = Summary
    /\ store0' = [txt |-> txt_files, json |-> json_files, assets |-> assets]
    /\ probe' = "none"
    /\ args' = a
    /\ cdp_client' = NoClient
    /\ pc' = IF a.rescrape THEN "rescrape" ELSE "main"
    /\ db_urls' = EmptyDict
    /\ scraped_keys' = {}
    /\ uncovered' = EmptyDict
    /\ cdp_available' = FALSE
    /\ items' = <<>>
    /\ i' = 1
    /\ extracted' = 0
    /\ failed' = 0
    /\ skipped_cdp' = 0
    /\ success' = 0
    /\ content' = NoContent
    /\ fetched' = <<>>
    /\ failed_keys' = {}
    /\ written' = <<>>
    /\ sleeps' = <<>>
    /\ UNCHANGED <<corpus_vars, store_vars, env_vars, nu>>

(***************************************************************************)
(* The main sync: main()                                                   *)
(***************************************************************************)

\* a variant that does not subtract the covered keys
Uncovered_all(db, scraped) == db

\* uncovered = {k: v for k, v in db_urls.items() if k not in scraped_keys}
Uncovered(db, scraped) == [k \in {x \in DOMAIN db : x \notin scraped} |-> db[k]]

\* the --domain filter, then the Google Drive filter
FilterUncovered(unc, domain) ==
    LET by_domain == IF domain # "None"
                     THEN {k \in DOMAIN unc : k[1] = domain}
                     ELSE DOMAIN unc
    IN  [k \in {x \in by_domain : x[1] # "gdrive"} |-> unc[k]]

\* a variant that sleeps after the last item too
RateLimitAlways(slept, rtype, idx, n) ==
    Append(slept, IF rtype = "notion" THEN DelayNotion ELSE DelayHttp)

\* the sleeps so far, after the rate limit at the end of iteration idx of n
RateLimit(slept, rtype, idx, n) ==
    IF idx < n
    THEN Append(slept, IF rtype = "notion" THEN DelayNotion ELSE DelayHttp)
    ELSE slept

\* the metadata main writes for a fetched item
FreshMeta(url, domain, info, rtype, text, now) ==
    [url |-> url, domain |-> domain, link_text |-> url,
     source_post |-> [asset_id |-> info.post_asset_id, title |-> info.post_name],
     extracted_at |-> now, content_length |-> OrEmpty(text).len,
     method |-> IF rtype = "notion" THEN "cdp" ELSE "http"]

\* The locals of one iteration of the loop of main, which depend on the item
\* alone: key and info of the item, url, domain and filename.
MainItem(key, info) ==
    [key |-> key, info |-> info, url |-> info.url, domain |-> get_domain(info.url),
     filename |-> url_to_filename(info.url, get_domain(info.url))]

\* items = sorted(uncovered.items(), key=lambda x: x[1]["url"])
SortedItems(unc) ==
    LET keys == SortByUrl(unc)
    IN  [n \in 1..Len(keys) |-> MainItem(keys[n], unc[keys[n]])]

\* a variant that leaves the text file for after the metadata
TxtAfterFetch_never(txt, name, r) == txt

\* a variant that writes the text file whatever the fetch returned
TxtAfterFetch_always(txt, name, r) == Put(txt, name, OrEmpty(r.content))

\* the text files after the body of the loop: written unless the fetch failed
TxtAfterFetch(txt, name, r) ==
    IF r.error # NoError THEN txt ELSE Put(txt, name, OrEmpty(r.content))

\* the item of the loop of main at index i
ItemKey == items[i].key

ItemUrl == items[i].url

ItemDomain == items[i].domain

ItemFile == items[i].filename

\* the item is skipped because the browser check failed
SkipsItem == ItemKey[1] = "notion" /\ ~cdp_available

\* the two queries and the difference; a failing query ends the run with a traceback
Discover(db_ok) ==
    /\ pc = "main"
    /\ IF db_ok
       THEN /\ db_urls' = get_db_resource_urls(posts)
            /\ scraped_keys' = get_scraped_keys(json_files)
            /\ uncovered' = Uncovered(db_urls', scraped_keys')
            /\ pc' = "filter"
       ELSE /\ pc' = "crash"
            /\ UNCHANGED <<db_urls, scraped_keys, uncovered>>
    /\ UNCHANGED <<corpus_vars, store_vars, env_vars, args, cdp_available, items, i,
                   counters, content, cdp_client, run_history, fetched,
                   failed_keys, written, sleeps, probe,
                   nu>>

Filter ==
    /\ pc = "filter"
    /\ uncovered' = FilterUncovered(uncovered, args.domain)
    /\ pc' = IF DOMAIN uncovered' = {} THEN "done" ELSE "check"
    /\ UNCHANGED <<corpus_vars, store_vars, env_vars, args, db_urls, scraped_keys,
                   cdp_available, items, i, counters, content, cdp_client,
                   run_history, fetched, failed_keys, written, sleeps, probe,
                   nu>>

\* the browser check, the counters and the sorted items
CheckCdp ==
    /\ pc = "check"
    /\ cdp_available' =
          IF \E k \in DOMAIN uncovered : k[1] = "notion"
          THEN check_cdp_available(CDP_AVAILABLE, browser_up)
          ELSE FALSE
    /\ probe' = IF \E k \in DOMAIN uncovered : k[1] = "notion"
                 THEN Probed(CDP_AVAILABLE, browser_up)
                 ELSE "none"
    /\ items' = SortedItems(uncovered)
    /\ i' = 1
    /\ extracted' = 0
    /\ failed' = 0
    /\ skipped_cdp' = 0
    /\ pc' = "loop"
    /\ UNCHANGED <<corpus_vars, store_vars, env_vars, args, db_urls, scraped_keys,
                   uncovered, success, content, cdp_client, run_history, fetched,
                   failed_keys, written, sleeps, nu>>

\* a variant of the skip that does not count the item
LoopSkipUncounted ==
    /\ pc = "loop"
    /\ i <= Len(items)
    /\ SkipsItem
    /\ i' = i + 1
    /\ UNCHANGED <<corpus_vars, store_vars, env_vars, pc, args, main_locals,
                   counters, success, content, cdp_client, run_history,
                   fetched, failed_keys, written, sleeps, probe,
                   nu>>

\* an item that needs the browser while the browser check failed
LoopSkip ==
    /\ pc = "loop"
    /\ i <= Len(items)
    /\ SkipsItem
    /\ skipped_cdp' = skipped_cdp + 1
    /\ i' = i + 1
    /\ UNCHANGED <<corpus_vars, store_vars, env_vars, pc, args, main_locals,
                   extracted, failed, success, content, cdp_client, run_history,
                   fetched, failed_keys, written, sleeps, probe,
                   nu>>

LoopDryRun ==
    /\ pc = "loop"
    /\ i <= Len(items)
    /\ ~SkipsItem
    /\ args.dry_run
    /\ i' = i + 1
    /\ UNCHANGED <<corpus_vars, store_vars, env_vars, pc, args, main_locals,
                   counters, content, cdp_client, run_history, fetched,
                   failed_keys, written, sleeps, probe,
                   nu>>

\* a variant that fetches in a dry run too
LoopFetchInDryRun(page, reply) ==
    /\ pc = "loop"
    /\ i <= Len(items)
    /\ ~SkipsItem
    /\ LET r == fetch_resource(ItemUrl, ItemDomain, cdp_client, CDP_AVAILABLE,
                               browser_up, page, reply)
       IN  /\ fetched' = Append(fetched, ItemUrl)
           /\ cdp_client' = r.client
           /\ IF r.raised
              THEN /\ pc' = "crash"
                   /\ UNCHANGED <<txt_files, content, failed, failed_keys, sleeps, i>>
              ELSE IF r.error # NoError
              THEN /\ failed' = failed + 1
                   /\ failed_keys' = failed_keys \cup {ItemKey}
                   /\ txt_files' = TxtAfterFetch(txt_files, ItemFile, r)
                   /\ sleeps' = RateLimit(sleeps, ItemKey[1], i, Len(items))
                   /\ i' = i + 1
                   /\ UNCHANGED <<pc, content>>
              ELSE /\ txt_files' = TxtAfterFetch(txt_files, ItemFile, r)
                   /\ content' = r.content
                   /\ pc' = "write_json"
                   /\ UNCHANGED <<failed, failed_keys, sleeps, i>>
    /\ UNCHANGED <<corpus_vars, json_files, env_vars, args, main_locals, extracted,
                   skipped_cdp, success, run_history, written, probe,
                   nu>>

\* fetch_resource and what follows it up to the text file
LoopFetch(page, reply) ==
    /\ pc = "loop"
    /\ i <= Len(items)
    /\ ~SkipsItem
    /\ ~args.dry_run
    /\ LET r == fetch_resource(ItemUrl, ItemDomain, cdp_client, CDP_AVAILABLE,
                               browser_up, page, reply)
       IN  /\ fetched' = Append(fetched, ItemUrl)
           /\ cdp_client' = r.client
           /\ IF r.raised
              THEN /\ pc' = "crash"
                   /\ UNCHANGED <<txt_files, content, failed, failed_keys, sleeps, i>>
              ELSE IF r.error # NoError
              THEN /\ failed' = failed + 1
                   /\ failed_keys' = failed_keys \cup {ItemKey}
                   /\ txt_files' = TxtAfterFetch(txt_files, ItemFile, r)
                   /\ sleeps' = RateLimit(sleeps, ItemKey[1], i, Len(items))
                   /\ i' = i + 1
                   /\ UNCHANGED <<pc, content>>
              ELSE /\ txt_files' = TxtAfterFetch(txt_files, ItemFile, r)
                   /\ content' = r.content
                   /\ pc' = "write_json"
                   /\ UNCHANGED <<failed, failed_keys, sleeps, i>>
    /\ UNCHANGED <<corpus_vars, json_files, env_vars, args, main_locals, extracted,
                   skipped_cdp, success, run_history, written, probe,
                   nu>>

\* the metadata file, the counter and the rate limit
WriteJson ==
    /\ pc = "write_json"
    /\ json_files' = Put(json_files, ItemFile,
                         FreshMeta(ItemUrl, ItemDomain, items[i].info, ItemKey[1],
                                   content, run))
    /\ written' = Append(written, ItemFile)
    /\ extracted' = extracted + 1
    /\ sleeps' = RateLimit(sleeps, ItemKey[1], i, Len(items))
    /\ i' = i + 1
    /\ pc' = "loop"
    /\ UNCHANGED <<corpus_vars, txt_files, env_vars, args, main_locals, failed,
                   skipped_cdp, success, content, cdp_client, run_history, fetched,
                   failed_keys, probe,
                   nu>>

LoopExit ==
    /\ pc = "loop"
    /\ i > Len(items)
    /\ pc' = "report"
    /\ UNCHANGED <<corpus_vars, store_vars, env_vars, args, main_locals, i,
                   counters, content, cdp_client, run_history, fetched,
                   failed_keys, written, sleeps, probe,
                   nu>>

\* the Results block
Report ==
    /\ pc = "report"
    /\ pc' = "done"
    /\ UNCHANGED <<corpus_vars, store_vars, env_vars, args, main_locals, i,
                   counters, content, cdp_client, run_history, fetched,
                   failed_keys, written, sleeps, probe,
                   nu>>

(***************************************************************************)
(* The re-fetch mode: rescrape_notion()                                    *)
(***************************************************************************)

\* The locals of one iteration of the loop of rescrape_notion, which depend on
\* the asset alone: url, domain and filename (and the key, for the history).
AssetItem(asset) ==
    LET url == Get(asset, "published_url", "")
    IN  [key |-> normalize_url(url), info |-> asset, url |-> url,
         domain |-> get_domain(url),
         filename |-> url_to_filename(url, get_domain(url))]

\* the asset of the loop of rescrape_notion at index i
AssetUrl == items[i].url

AssetDomain == items[i].domain

AssetFile == items[i].filename

\* the metadata in json_path, {} when there is none or it cannot be parsed
LoadMeta(json, name) ==
    IF name \in DOMAIN json /\ "json_error" \notin DOMAIN json[name]
    THEN json[name]
    ELSE EmptyDict

\* the metadata rescrape_notion writes: what is there, updated
MergedMeta(json, name, url, domain, text, now) ==
    Update(LoadMeta(json, name),
           [url |-> url, domain |-> domain, extracted_at |-> now,
            content_length |-> OrEmpty(text).len, method |-> "cdp",
            format |-> "markdown"])

\* everything before the loop: the import check, the query, the browser check
\* and the dry run
RescrapeStart(db_ok) ==
    /\ pc = "rescrape"
    /\ LET checks == MARKDOWNIFY_AVAILABLE /\ db_ok /\ assets # <<>>
       IN  /\ cdp_available' = (checks /\ check_cdp_available(CDP_AVAILABLE, browser_up))
           /\ probe' = IF checks THEN Probed(CDP_AVAILABLE, browser_up) ELSE "none"
    /\ pc' = IF ~MARKDOWNIFY_AVAILABLE THEN "exit"
             ELSE IF ~db_ok THEN "crash"
             ELSE IF assets = <<>> THEN "done"
             ELSE IF ~cdp_available' THEN "exit"
             ELSE IF args.dry_run THEN "done"
             ELSE "r_loop"
    /\ items' = [n \in 1..Len(assets) |-> AssetItem(assets[n])]
    /\ i' = 1
    /\ success' = 0
    /\ failed' = 0
    /\ UNCHANGED <<corpus_vars, store_vars, env_vars, args, db_urls, scraped_keys,
                   uncovered, extracted, skipped_cdp, content, cdp_client,
                   run_history, fetched, failed_keys, written, sleeps, nu>>

\* a variant that also passes over the assets whose key the store covers
RescrapeSkipCovered ==
    /\ pc = "r_loop"
    /\ i <= Len(items)
    /\ (AssetUrl = "" \/ items[i].key \in get_scraped_keys(store0.json))
    /\ i' = i + 1
    /\ UNCHANGED <<corpus_vars, store_vars, env_vars, pc, args, main_locals,
                   counters, content, cdp_client, run_history, fetched,
                   failed_keys, written, sleeps, probe,
                   nu>>

RescrapeSkip ==
    /\ pc = "r_loop"
    /\ i <= Len(items)
    /\ AssetUrl = ""
    /\ i' = i + 1
    /\ UNCHANGED <<corpus_vars, store_vars, env_vars, pc, args, main_locals,
                   counters, content, cdp_client, run_history, fetched,
                   failed_keys, written, sleeps, probe,
                   nu>>

\* fetch_notion and what follows it up to the text file
RescrapeFetch(page) ==
    /\ pc = "r_loop"
    /\ i <= Len(items)
    /\ AssetUrl # ""
    /\ LET r == fetch_notion(AssetUrl, cdp_client, CDP_AVAILABLE, browser_up, page)
       IN  /\ fetched' = Append(fetched, AssetUrl)
           /\ cdp_client' = r.client
           /\ IF r.raised
              THEN /\ pc' = "crash"
                   /\ UNCHANGED <<txt_files, content, failed, failed_keys, i>>
              ELSE IF r.error # NoError
              THEN /\ failed' = failed + 1
                   /\ failed_keys' = failed_keys \cup {items[i].key}
                   /\ i' = i + 1
                   /\ UNCHANGED <<pc, txt_files, content>>
              ELSE /\ txt_files' = Put(txt_files, AssetFile, OrEmpty(r.content))
                   /\ content' = r.content
                   /\ pc' = "r_write_json"
                   /\ UNCHANGED <<failed, failed_keys, i>>
    /\ UNCHANGED <<corpus_vars, json_files, env_vars, args, main_locals, extracted,
                   skipped_cdp, success, run_history, written, sleeps, probe,
                   nu>>

RescrapeWriteJson ==
    /\ pc = "r_write_json"
    /\ json_files' = Put(json_files, AssetFile,
                         MergedMeta(json_files, AssetFile, AssetUrl, AssetDomain,
                                    content, run))
    /\ written' = Append(written, AssetFile)
    /\ pc' = "r_update_db"
    /\ UNCHANGED <<corpus_vars, txt_files, env_vars, args, main_locals, i,
                   counters, content, cdp_client, run_history, fetched,
                   failed_keys, sleeps, probe,
                   nu>>

\* update_db_asset_content, the counters and the rate limit
RescrapeUpdateDb(db_ok) ==
    /\ pc = "r_update_db"
    /\ IF db_ok
       THEN /\ assets' = [assets EXCEPT ![i].content = content]
            /\ success' = success + 1
            /\ UNCHANGED failed
       ELSE /\ failed' = failed + 1
            /\ UNCHANGED <<assets, success>>
    /\ sleeps' = IF i < Len(items) THEN Append(sleeps, DelayNotion) ELSE sleeps
    /\ i' = i + 1
    /\ pc' = "r_loop"
    /\ UNCHANGED <<posts, store_vars, env_vars, args, main_locals, extracted,
                   skipped_cdp, content, cdp_client, run_history, fetched,
                   failed_keys, written, probe,
                   nu>>

RescrapeExit ==
    /\ pc = "r_loop"
    /\ i > Len(items)
    /\ pc' = "r_report"
    /\ UNCHANGED <<corpus_vars, store_vars, env_vars, args, main_locals, i,
                   counters, content, cdp_client, run_history, fetched,
                   failed_keys, written, sleeps, probe,
                   nu>>

RescrapeReport ==
    /\ pc = "r_report"
    /\ pc' = "done"
    /\ UNCHANGED <<corpus_vars, store_vars, env_vars, args, main_locals, i,
                   counters, content, cdp_client, run_history, fetched,
                   failed_keys, written, sleeps, probe,
                   nu>>

(***************************************************************************)
(* The specification of the runs                                           *)
(***************************************************************************)

Next ==
    \/ BrowserToggle
    \/ \E a \in ArgsSet : StartRun(a)
    \/ \E ok \in BOOLEAN : Discover(ok)
    \/ Filter
    \/ CheckCdp
    \/ LoopSkip
    \/ LoopDryRun
    \/ \E ans \in Answers : LoopFetch(ans.page, ans.reply)
    \/ WriteJson
    \/ LoopExit
    \/ Report
    \/ \E ok \in BOOLEAN : RescrapeStart(ok)
    \/ RescrapeSkip
    \/ \E page \in Pages : RescrapeFetch(page)
    \/ RescrapeWriteJson
    \/ \E ok \in BOOLEAN : RescrapeUpdateDb(ok)
    \/ RescrapeExit
    \/ RescrapeReport

Spec == Init /\ [][Next]_vars

(***************************************************************************)
(* The runs with the process of a main sync terminated at any point        *)
(***************************************************************************)

\* what a write of text t leaves in the file when the process ends before the
\* write is complete: the file is truncated on opening and filled from the
\* start
CutsOf(t) == {Text(SubSeq(t.body, 1, k), k) : k \in 0..(Len(t.body) - 1)}

\* the process ends between two writes
KillProcess ==
    /\ ~Idle
    /\ ~args.rescrape
    /\ pc' = "crash"
    /\ UNCHANGED <<corpus_vars, store_vars, env_vars, args, main_locals, i,
                   counters, content, cdp_client, run_history, fetched,
                   failed_keys, written, sleeps, probe,
                   nu>>

\* the process ends while txt_path.write_text is writing
KillInTxtWrite(page, reply) ==
    /\ pc = "loop"
    /\ i <= Len(items)
    /\ ~SkipsItem
    /\ ~args.dry_run
    /\ ~args.rescrape
    /\ LET r == fetch_resource(ItemUrl, ItemDomain, cdp_client, CDP_AVAILABLE,
                               browser_up, page, reply)
       IN  /\ ~r.raised
           /\ r.error = NoError
           /\ fetched' = Append(fetched, ItemUrl)
           /\ cdp_client' = r.client
           /\ \E t \in CutsOf(OrEmpty(r.content)) :
                 txt_files' = Put(txt_files, ItemFile, t)
    /\ pc' = "crash"
    /\ UNCHANGED <<corpus_vars, json_files, env_vars, args, main_locals, i,
                   counters, content, run_history, failed_keys, written, sleeps,
                   probe, nu>>

\* the process ends while json_path.write_text is writing: what is left of
\* the metadata is not a JSON document
KillInJsonWrite ==
    /\ pc = "write_json"
    /\ json_files' = Put(json_files, ItemFile, CorruptJson)
    /\ pc' = "crash"
    /\ UNCHANGED <<corpus_vars, txt_files, env_vars, args, main_locals, i,
                   counters, content, cdp_client, run_history, fetched,
                   failed_keys, written, sleeps, probe,
                   nu>>

NextCrash ==
    \/ Next
    \/ KillProcess
    \/ \E ans \in Answers : KillInTxtWrite(ans.page, ans.reply)
    \/ KillInJsonWrite

SpecCrash == Init /\ [][NextCrash]_vars

(***************************************************************************)
(* Properties of the runs                                                  *)
(***************************************************************************)

Range(seq) == {seq[n] : n \in 1..Len(seq)}

NoDuplicates(seq) == \A m, n \in 1..Len(seq) : m # n => seq[m] # seq[n]

\* the capture records of json whose URL normalises to key
RecordsOf(json, key) ==
    {f \in DOMAIN json :
        /\ f # "manifest"
        /\ "json_error" \notin DOMAIN json[f]
        /\ normalize_url(Get(json[f], "url", "")) = key}

\* this run and the previous one are main syncs with the same command line,
\* not dry runs, and the previous one ran to its end
TwoSyncsInARow ==
    /\ run >= 2
    /\ ~args.rescrape
    /\ ~args.dry_run
    /\ prev.args = args
    /\ prev.ended = "done"

\* uncovered holds the filtered set
Filtered == pc \notin {"main", "filter", "crash"}

\* C1 (as claimed): the uncovered set of the second of two main syncs in a row
\* is empty.
C1_SecondRunEmpty == (TwoSyncsInARow /\ Filtered) => DOMAIN uncovered = {}

\* C1 (amended): the uncovered set of the second of two main syncs in a row is
\* empty when the first one extracted every item of its uncovered set (none
\* failed, none was skipped for want of the browser).
C1_Idempotent ==
    (TwoSyncsInARow /\ prev.failed = 0 /\ prev.skipped_cdp = 0 /\ Filtered)
        => DOMAIN uncovered = {}

C1_Witness ==
    /\ TwoSyncsInARow
    /\ prev.failed = 0
    /\ prev.skipped_cdp = 0
    /\ prev.extracted >= 2
    /\ pc = "done"
    /\ DOMAIN db_urls # {}
    /\ DOMAIN uncovered = {}

\* C2: before the filter, uncovered is exactly referenced minus covered, with
\* the reference of each key; a covered key that is not referenced is not in it.
C2_UncoveredIsDifference ==
    (~args.rescrape /\ pc = "filter") =>
        /\ \A k \in DOMAIN db_urls :
              k \notin scraped_keys => k \in DOMAIN uncovered /\ uncovered[k] = db_urls[k]
        /\ \A k \in DOMAIN uncovered : k \in DOMAIN db_urls /\ k \notin scraped_keys

C2_Witness ==
    /\ ~args.rescrape
    /\ pc = "filter"
    /\ scraped_keys \ DOMAIN db_urls # {}
    /\ scraped_keys \cap DOMAIN db_urls # {}
    /\ DOMAIN uncovered # {}

\* the store holds one capture record, that of url, with a text of 300 characters
OneRecord(url) ==
    LET f == url_to_filename(url, get_domain(url))
    IN  /\ DOMAIN json_files = {f}
        /\ DOMAIN txt_files = {f}
        /\ json_files[f].url = url
        /\ json_files[f].content_length = 300
        /\ txt_files[f].len = 300

\* C3: one post referencing one Notion URL with a 32-hex id and a query string,
\* an empty store and a fetch that succeeds: after the sync there is exactly one
\* capture record, with the URL as written in the post and content length 300;
\* a second sync fetches and extracts nothing.
C3_EndToEnd ==
    /\ ( /\ run = 1
         /\ ~args.rescrape
         /\ posts = <<PostQuery>>
         /\ store0.json = EmptyDict
         /\ fetched = <<UrlNotionQuery>>
         /\ failed = 0
         /\ pc = "done" )
       => (extracted = 1 /\ OneRecord(UrlNotionQuery))
    /\ ( /\ run = 2
         /\ ~args.rescrape
         /\ ~prev.args.rescrape
         /\ posts = <<PostQuery>>
         /\ prev.json0 = EmptyDict
         /\ prev.extracted = 1 )
       => /\ extracted = 0
          /\ fetched = <<>>
          /\ written = <<>>
          /\ OneRecord(UrlNotionQuery)
          /\ pc \in {"main", "filter", "done", "crash"}

C3_Witness ==
    /\ run = 2
    /\ ~args.rescrape
    /\ ~prev.args.rescrape
    /\ posts = <<PostQuery>>
    /\ prev.json0 = EmptyDict
    /\ prev.extracted = 1
    /\ pc = "done"
    /\ DOMAIN db_urls = {<<"notion", Hex32>>}

\* the main sync is in its loop
InMainLoop == ~args.rescrape /\ pc \in {"loop", "write_json"}

\* a step of the loop of main
MainLoopStep ==
    \/ LoopSkip
    \/ LoopDryRun
    \/ \E ans \in Answers : LoopFetch(ans.page, ans.reply)
    \/ WriteJson
    \/ LoopExit

\* C4: in the loop of main, whatever the fetch of an item does, a step is
\* possible, every step stays in the loop with the index unchanged or advanced
\* by one, and the loop is left only for the report, after the last item.
C4_LoopNeverAborts ==
    /\ [](InMainLoop => ENABLED MainLoopStep)
    /\ [][InMainLoop =>
            /\ pc' \in {"loop", "write_json", "report"}
            /\ items' = items
            /\ i' \in {i, i + 1}
            /\ (pc' = "report" => i = Len(items) + 1)]_vars

C4_Witness ==
    /\ ~args.rescrape
    /\ pc = "report"
    /\ failed >= 2
    /\ extracted >= 1
    /\ cdp_client.ws = "dead"
    /\ items[1].key \in failed_keys

\* C5 (as claimed): when the browser check of a main sync found the browser
\* unavailable, no item that fetch_resource hands to the browser strategy is
\* fetched or counted as failed, and the report counts them all as skipped.
C5_BrowserItemsSkipped ==
    (~args.rescrape /\ probe = "down") =>
        LET browser_items == {n \in 1..Len(items) : items[n].domain \in CDP_DOMAINS}
        IN  /\ \A n \in browser_items :
                  items[n].url \notin Range(fetched) /\ items[n].key \notin failed_keys
            /\ (pc = "report" /\ ~args.dry_run)
                  => skipped_cdp = Cardinality(browser_items)

\* C6: in a re-fetch run the browser check comes before every fetch and every
\* write: a run whose check finds the browser unavailable exits there, and
\* without a check that found it nothing is fetched and neither the store nor
\* the corpus is written.
C6_RescrapeFailFast ==
    args.rescrape =>
        /\ (probe = "down" => pc = "exit")
        /\ (probe # "up" =>
              /\ fetched = <<>>
              /\ txt_files = store0.txt
              /\ json_files = store0.json
              /\ assets = store0.assets)

C6_Witness ==
    /\ args.rescrape
    /\ probe = "down"
    /\ pc = "exit"
    /\ \E n \in 1..Len(items) : items[n].url # ""

\* the files of name are as they were when the run started
FilesUntouched(name) ==
    /\ name \in DOMAIN txt_files <=> name \in DOMAIN store0.txt
    /\ name \in DOMAIN json_files <=> name \in DOMAIN store0.json
    /\ name \in DOMAIN txt_files => txt_files[name] = store0.txt[name]
    /\ name \in DOMAIN json_files => json_files[name] = store0.json[name]

\* C7: a main sync hands each item to a fetch strategy at most once; the files
\* of an item whose fetch failed are untouched and its key is not covered at
\* the report; the next main sync finds the key uncovered again.
C7_FailedStaysUncovered ==
    /\ ~args.rescrape =>
          /\ NoDuplicates(fetched)
          /\ Range(fetched) \subseteq {items[n].url : n \in 1..Len(items)}
          /\ \A n \in 1..Len(items) :
                items[n].key \in failed_keys => FilesUntouched(items[n].filename)
          /\ pc = "report" => failed_keys \cap get_scraped_keys(json_files) = {}
    /\ (run >= 2 /\ ~args.rescrape /\ ~prev.args.rescrape /\ pc = "filter")
          => prev.failed_keys \subseteq DOMAIN uncovered

C7_Witness ==
    /\ run >= 2
    /\ ~args.rescrape
    /\ ~prev.args.rescrape
    /\ pc = "filter"
    /\ prev.failed_keys # {}
    /\ prev.extracted >= 1

\* the metadata fields a re-capture sets
RecaptureFields ==
    {"url", "domain", "extracted_at", "content_length", "method", "format"}

\* C10 (as claimed): when the re-fetch mode has written the metadata of a
\* resource that had a capture record when the run started, the new metadata
\* keeps every field of that record that the re-capture does not set, carries
\* the fields it sets, and the text body of the record is the new content.
C10_MergedOnRecapture ==
    (args.rescrape /\ pc = "r_update_db") =>
        LET new == json_files[AssetFile]
        IN  \A f \in RecordsOf(store0.json, items[i].key) :
                /\ \A fld \in DOMAIN store0.json[f] \ RecaptureFields :
                      fld \in DOMAIN new /\ new[fld] = store0.json[f][fld]
                /\ new.url = AssetUrl
                /\ new.content_length = OrEmpty(content).len
                /\ new.extracted_at = run
                /\ txt_files[f] = OrEmpty(content)

\* C11: no step deletes a capture record: the metadata files, the text
\* files and the covered keys of the store only grow.
C11_NeverDeleted ==
    [][/\ DOMAIN json_files \subseteq DOMAIN json_files'
       /\ DOMAIN txt_files \subseteq DOMAIN txt_files'
       /\ get_scraped_keys(json_files) \subseteq get_scraped_keys(json_files')]_vars

C11_Witness ==
    /\ written # <<>>
    /\ get_scraped_keys(store0.json) # {}
    /\ written[1] \notin DOMAIN store0.json
    /\ get_scraped_keys(store0.json) \subseteq get_scraped_keys(json_files)
    /\ get_scraped_keys(json_files) # get_scraped_keys(store0.json)

\* the URLs of the items its[n..] that have one, in order
RECURSIVE UrlsFrom(_, _)
UrlsFrom(its, n) ==
    IF n > Len(its) THEN <<>>
    ELSE IF its[n].url = "" THEN UrlsFrom(its, n + 1)
    ELSE <<its[n].url>> \o UrlsFrom(its, n + 1)

\* C12: a re-fetch run that reaches its report has fetched every asset with a
\* published URL, covered or not, once and in order; the content of an asset in
\* the corpus changes only when its fetch succeeded and its capture record was
\* written, and it becomes the fetched text; an asset whose fetch failed has
\* its files and its corpus document as they were at the start of the run.
C12_RefetchFrame ==
    args.rescrape =>
        /\ pc \in {"r_report", "done"} /\ items # <<>> /\ probe = "up" /\ ~args.dry_run
              => fetched = UrlsFrom(items, 1)
        /\ Len(assets) = Len(store0.assets)
        /\ \A n \in 1..Len(items) :
              /\ assets[n] # store0.assets[n] =>
                    /\ items[n].url \in Range(fetched)
                    /\ items[n].key \notin failed_keys
                    /\ items[n].filename \in Range(written)
                    /\ assets[n] = [store0.assets[n] EXCEPT
                                      !.content = txt_files[items[n].filename]]
                    /\ json_files[items[n].filename].url = items[n].url
                    /\ json_files[items[n].filename].content_length
                          = assets[n].content.len
              /\ items[n].key \in failed_keys =>
                    /\ FilesUntouched(items[n].filename)
                    /\ assets[n] = store0.assets[n]

C12_Witness ==
    /\ args.rescrape
    /\ pc = "r_report"
    /\ success = 1
    /\ \E n \in 1..Len(items) :
          /\ items[n].key \in get_scraped_keys(store0.json)
          /\ assets[n] # store0.assets[n]

\* the URLs of seq are in strictly ascending order
Ascending(seq) == \A m, n \in 1..Len(seq) : m < n => StrLess(seq[m], seq[n])

\* C13: the items of a main sync are the filtered uncovered set in strictly
\* ascending order of URL; the fetches and the metadata files written follow
\* that order, and nothing beyond the item at hand has been processed.
C13_SortedTraversal ==
    (~args.rescrape /\ items # <<>>) =>
        /\ {items[n].key : n \in 1..Len(items)} = DOMAIN uncovered
        /\ \A n \in 1..Len(items) : items[n].url = uncovered[items[n].key].url
        /\ Ascending([n \in 1..Len(items) |-> items[n].url])
        /\ Ascending(fetched)
        /\ Ascending([n \in 1..Len(written) |-> json_files[written[n]].url])
        /\ Range(fetched) \subseteq {items[n].url : n \in 1..MinOf({i, Len(items)})}
        /\ Range(written) \subseteq {items[n].filename : n \in 1..MinOf({i, Len(items)})}

C13_Witness ==
    /\ ~args.rescrape
    /\ pc = "report"
    /\ Len(items) = 3
    /\ items[1].url = UrlGdoc
    /\ items[2].url = UrlNotionBare
    /\ items[3].url = UrlNotionNoId
    /\ Len(written) >= 2
    /\ Len(fetched) = 3

\* the main sync is between two items, or past the last one
BetweenItems ==
    /\ ~args.rescrape
    /\ items # <<>>
    /\ pc \in {"loop", "write_json", "report", "done"}

\* the item was handed to a fetch strategy
WasFetched(it) == it.url \in Range(fetched)

\* the strategy of the item is the browser-driven one
BrowserDriven(it) == it.domain \in CDP_DOMAINS

\* the type of the key of the item is notion
NotionKeyed(it) == it.key[1] = "notion"

\* the sleeps due after the items n..i-1 of the loop of main, the last item of
\* the list apart: after every item (every) or after the fetched ones, the
\* long delay by strategy (by_strategy) or by key type
RECURSIVE SleepsDue(_, _, _)
SleepsDue(n, every, by_strategy) ==
    IF n >= i \/ n >= Len(items) THEN <<>>
    ELSE LET long == IF by_strategy THEN BrowserDriven(items[n])
                     ELSE NotionKeyed(items[n])
         IN  (IF every \/ WasFetched(items[n])
              THEN <<IF long THEN DelayNotion ELSE DelayHttp>>
              ELSE <<>>)
             \o SleepsDue(n + 1, every, by_strategy)

\* C14 (as claimed): in a main sync that is not a dry run, the sleeps so far
\* are one per finished item but the last, whatever its outcome, the longer
\* delay after a browser-driven item and the shorter one after the others.
C14_SleepAfterEveryItem ==
    (BetweenItems /\ ~args.dry_run) => sleeps = SleepsDue(1, TRUE, TRUE)

\* C14 (amended): the sleeps so far are one per finished item that was handed
\* to a fetch strategy, but the last item of the list, whether the fetch
\* succeeded or failed; the delay is the longer one when the type of the
\* item's key is notion and the shorter one otherwise; an item skipped for
\* want of the browser, or listed by a dry run, is followed by no sleep.
C14_SleepAfterFetchedItem ==
    BetweenItems => sleeps = SleepsDue(1, FALSE, FALSE)

C14_Witness ==
    /\ BetweenItems
    /\ ~args.dry_run
    /\ pc = "report"
    /\ sleeps = <<DelayHttp, DelayNotion>>
    /\ failed >= 1
    /\ extracted >= 1

\* the references of the posts ps[n..] in the order the scan visits them:
\* post by post, in a post the Notion references and then the Google ones
RECURSIVE ScanOrder(_, _)
ScanOrder(ps, n) ==
    IF n > Len(ps) THEN <<>>
    ELSE LET refs == PostRefs(ps[n].content)
         IN  [j \in 1..Len(refs) |-> [url |-> RStripPunct(refs[j]), post |-> ps[n]]]
             \o ScanOrder(ps, n + 1)

\* C15: after Discover, the references kept are one per key of the references
\* of the corpus, and the URL and the source post of each are those of the
\* first reference with that key in scan order.
C15_FirstOccurrenceWins ==
    (~args.rescrape /\ pc = "filter") =>
        LET refs == ScanOrder(posts, 1)
            KeyAt(n) == normalize_url(refs[n].url)
        IN  /\ DOMAIN db_urls = {KeyAt(n) : n \in 1..Len(refs)}
            /\ \A k \in DOMAIN db_urls :
                  LET first == MinOf({n \in 1..Len(refs) : KeyAt(n) = k})
                  IN  /\ db_urls[k].url = refs[first].url
                      /\ db_urls[k].post_asset_id = refs[first].post.asset_id
                      /\ db_urls[k].project_id = refs[first].post.project_id
                      /\ db_urls[k].post_name = refs[first].post.name

C15_Witness ==
    /\ ~args.rescrape
    /\ pc = "filter"
    /\ posts = <<PostGdoc, PostMixed>>
    /\ Len(ScanOrder(posts, 1)) = 5
    /\ Cardinality(DOMAIN db_urls) = 3
    /\ db_urls[<<"notion", Hex32>>].url = UrlNotionQuery
    /\ db_urls[<<"notion", Hex32>>].post_asset_id = "p3"
    /\ db_urls[<<"gdoc", "abc">>].post_asset_id = "p3"

\* C18: in a dry run of the main sync no fetch strategy is called, no browser
\* channel is opened and no file of the store is written: the store is as it
\* was when the run started.
C18_DryRunWritesNothing ==
    (~args.rescrape /\ args.dry_run /\ run >= 1) =>
        /\ fetched = <<>>
        /\ written = <<>>
        /\ cdp_client = NoClient
        /\ txt_files = store0.txt
        /\ json_files = store0.json
        /\ extracted = 0
        /\ failed = 0

C18_Witness ==
    /\ ~args.rescrape
    /\ args.dry_run
    /\ pc = "report"
    /\ probe = "up"
    /\ browser_up
    /\ Len(items) >= 2
    /\ skipped_cdp = 0
    /\ json_files = store0.json

\* this step hands an item to the browser-driven strategy
BrowserFetchStep ==
    /\ pc \in {"loop", "r_loop"}
    /\ i <= Len(items)
    /\ fetched' = Append(fetched, items[i].url)
    /\ CDP_AVAILABLE
    /\ (args.rescrape \/ items[i].domain \in CDP_DOMAINS)

\* the cached client has met a connection-level error: its channel failed, or
\* its connect did
ChannelFailed ==
    /\ cdp_client.exists
    /\ (cdp_client.ws = "dead" \/ ~cdp_client.connected)

\* C19 (as claimed): a browser-driven fetch that follows a connection-level
\* error of the cached client, the browser answering, opens a fresh channel.
C19_FreshChannelAfterError ==
    [][(ChannelFailed /\ browser_up /\ BrowserFetchStep)
          => cdp_client'.opened = cdp_client.opened + 1]_vars

\* C20: in a run a client opens at most one channel, and not before an item is
\* handed to the browser-driven strategy; the first such fetch opens it when
\* the browser answers, and a fetch that finds the channel open opens no other.
C20_OneChannel ==
    /\ [](/\ cdp_client.opened <= 1
          /\ cdp_client.ws = "open" => cdp_client.opened = 1 /\ cdp_client.connected
          /\ cdp_client.opened = 1 =>
                \E n \in 1..Len(items) :
                    /\ items[n].url \in Range(fetched)
                    /\ (args.rescrape \/ items[n].domain \in CDP_DOMAINS))
    /\ [][BrowserFetchStep =>
            /\ (~cdp_client.exists /\ browser_up) =>
                  cdp_client'.opened = 1 /\ cdp_client'.connected
            /\ cdp_client.ws = "open" => cdp_client'.opened = cdp_client.opened]_vars

C20_Witness ==
    /\ ~args.rescrape
    /\ pc = "report"
    /\ UrlNotionBare \in Range(fetched)
    /\ UrlNotionNoId \in Range(fetched)
    /\ failed = 0
    /\ extracted = Len(items)
    /\ cdp_client.opened = 1
    /\ cdp_client.ws = "open"

\* the capture records of the store
Records(json) ==
    {f \in DOMAIN json : f # "manifest" /\ "json_error" \notin DOMAIN json[f]}

\* C24: after any sequence of main syncs and re-fetch runs the store holds at
\* most one capture record per normalised key.
C24_OneRecordPerKey ==
    Idle =>
        \A f \in Records(json_files) :
            RecordsOf(json_files, normalize_url(Get(json_files[f], "url", ""))) = {f}

\* C25: for every item of a main sync the strategy fetch_resource chooses
\* from the domain of the URL is the browser-driven one if and only if the type
\* of the item's key is notion, the type that decides the skip, the delay and
\* the recorded method.
C25_StrategyAgreesWithKeyType ==
    ~args.rescrape =>
        \A n \in 1..Len(items) : BrowserDriven(items[n]) <=> NotionKeyed(items[n])

\* C26: at the Report step of a main sync that is not a dry run, extracted +
\* failed + skipped is the number of uncovered items computed at filter time,
\* and extracted is the number of capture records the run has written.
C26_CountersAddUp ==
    (pc = "report" /\ ~args.rescrape /\ ~args.dry_run) =>
        /\ extracted + failed + skipped_cdp = Cardinality(DOMAIN uncovered)
        /\ Len(items) = Cardinality(DOMAIN uncovered)
        /\ extracted = Len(written)
        /\ extracted = Cardinality(Range(written))
        /\ \A f \in Range(written) :
              f \in DOMAIN json_files /\ json_files[f].extracted_at = run

C26_Witness ==
    /\ pc = "report"
    /\ ~args.rescrape
    /\ ~args.dry_run
    /\ extracted >= 1
    /\ failed >= 1
    /\ skipped_cdp >= 1

\* the keys the next run will find covered all have a text file whose body
\* is as long as their record says
CoveredHaveWholeBody ==
    \A f \in Records(json_files) :
        /\ f \in DOMAIN txt_files
        /\ txt_files[f].len = Get(json_files[f], "content_length", 0)

\* the text files without a capture record
Orphans == {f \in DOMAIN txt_files : f \notin Records(json_files)}

\* a main sync writes (or starts to write) the metadata of an item only when
\* the text file of the item holds the whole content, and a text file that
\* the item had is replaced by the new content, whatever it held
TextBeforeMetadata ==
    ~args.rescrape =>
        /\ json_files' # json_files =>
              /\ pc = "write_json"
              /\ ItemFile \in DOMAIN txt_files
              /\ txt_files[ItemFile] = OrEmpty(content)
              /\ txt_files' = txt_files
        /\ (pc = "loop" /\ pc' = "write_json") =>
              txt_files' = Put(txt_files, ItemFile, OrEmpty(content'))

PlatformDocUrls ==
    {UrlNotionBare,
     "https://www.notion.so/" \o Hex32,
     "https://notion.site/Guide-" \o Hex32,
     UrlGdoc,
     "https://docs.google.com/spreadsheets/d/s1_x-Y/edit"}

\* other URLs
OtherUrls ==
    {UrlNotionNoId,
     UrlElsewhere,
     "https://example.com/notion-" \o Hex32,
     "https://example.com/a/d/abc",
     "https://drive.google.com/drive/folders/xyz"}

NormBases == PlatformDocUrls \cup OtherUrls

QueryStrings == {"", "?pvs=4", "?q=spreadsheets", "?ref=notion"}

\* the characters rstrip(").,;") removes
TrailingPuncts == {"", ".", ",", ";", ")"}

InitNorm ==
    /\ SyncInit(<<PostQuery>>, <<>>, EmptyStore, FALSE, [cdp |-> TRUE, md |-> TRUE])
    /\ \E b \in NormBases, q \in QueryStrings, t \in TrailingPuncts :
          nu = [pc |-> "input", base |-> b, variant |-> b \o q \o t,
                key_base |-> <<>>, key_variant |-> <<>>]

NormApply ==
    /\ nu.pc = "input"
    /\ nu' = [nu EXCEPT !.pc = "done",
                        !.key_base = normalize_url(nu.base),
                        !.key_variant = normalize_url(nu.variant)]
    /\ UNCHANGED sync_vars

NextNorm == NormApply

SpecNorm == InitNorm /\ [][NextNorm]_vars

\* the host of url contains the marker of no platform
NoMarkerInHost(url) ==
    /\ ~Contains(Hostname(url), "notion")
    /\ ~Contains(Hostname(url), "google.com")

\* C8 (as claimed): two URLs of the same platform document that differ only by
\* a query string or trailing punctuation have the same key.
C8_SameKey ==
    (nu.pc = "done" /\ nu.base \in PlatformDocUrls) => nu.key_variant = nu.key_base

\* C9 (as claimed): a URL whose host contains no platform marker has the key
\* (other, url), the URL unchanged.
C9_OtherFallback ==
    (nu.pc = "done" /\ NoMarkerInHost(nu.variant))
        => nu.key_variant = <<"other", nu.variant>>

(***************************************************************************)
(* The specification of the text clean-up: the end of html_to_markdown     *)
(* (page chrome, blank lines, strip) applied to a converted text           *)
(***************************************************************************)

Newline == "\n"

\* the characters \s and str.strip() take for white space, of those of the model
Whitespace == {" ", "\n", "\t"}

\* s.split("\n")
RECURSIVE SplitLines(_)
SplitLines(s) ==
    LET k == FindFrom(s, Newline, 1)
    IN  IF k = 0 THEN <<s>>
        ELSE <<SubSeq(s, 1, k - 1)>> \o SplitLines(SubSeq(s, k + 1, Len(s)))

\* "\n".join(ls)
RECURSIVE JoinLines(_)
JoinLines(ls) ==
    IF ls = <<>> THEN ""
    ELSE IF Len(ls) = 1 THEN ls[1]
    ELSE ls[1] \o Newline \o JoinLines(Tail(ls))

\* s.lstrip()
LStripWs(s) == SubSeq(s, RunEnd(s, 1, Whitespace) + 1, Len(s))

\* s.rstrip()
RStripWs(s) ==
    LET keep == {j \in 1..Len(s) : Ch(s, j) \notin Whitespace}
    IN  IF keep = {} THEN "" ELSE SubSeq(s, 1, MaxOf(keep))

\* s.strip()
Strip(s) == RStripWs(LStripWs(s))

UpperString == "ABCDEFGHIJKLMNOPQRSTUVWXYZ"

LowerString == "abcdefghijklmnopqrstuvwxyz"

\* s.lower(), which is how re.IGNORECASE compares the letters of the patterns
RECURSIVE Lower(_)
Lower(s) ==
    IF s = "" THEN ""
    ELSE LET c == Ch(s, 1)
             k == FindFrom(UpperString, c, 1)
         IN  (IF k > 0 THEN Ch(LowerString, k) ELSE c) \o Lower(SubSeq(s, 2, Len(s)))

\* any(re.match(p, line, re.IGNORECASE) for p in skip_patterns)
IsChrome(line) ==
    LET t == Lower(LStripWs(line))
    IN  \/ RStripWs(t) = "skip to content"
        \/ StartsAt(t, 1, "[skip to content]")
        \/ (StartsAt(t, 1, "you") /\ Ch(t, 4) # "" /\ StartsAt(t, 5, "re almost there"))
        \/ StartsAt(t, 1, "sign up or login")
        \/ StartsAt(t, 1, "[sign up or login")
        \/ RStripWs(t) = "share"
        \/ (StartsAt(t, 1, "made with") /\ Ch(t, 10) \in Whitespace)
        \/ RStripWs(t) = "try notion"

NotChrome(line) == ~IsChrome(line)

\* the lines of result without those of the page chrome, joined again
CleanChrome(result) == JoinLines(SelectSeq(SplitLines(result), NotChrome))

\* a variant that leaves the newlines as they are
KeepNewlines(s) == s

\* re.sub(r"\n{3,}", "\n\n", s)
RECURSIVE CollapseNewlines(_)
CollapseNewlines(s) ==
    IF s = "" THEN ""
    ELSE IF Ch(s, 1) = Newline
    THEN LET e == RunEnd(s, 1, {Newline})
         IN  (IF e >= 3 THEN Newline \o Newline ELSE SubSeq(s, 1, e))
             \o CollapseNewlines(SubSeq(s, e + 1, Len(s)))
    ELSE LET k == FindFrom(s, Newline, 1)
         IN  IF k = 0 THEN s
             ELSE SubSeq(s, 1, k - 1) \o CollapseNewlines(SubSeq(s, k, Len(s)))

\* html_to_markdown from the converted text on
NormalizeText(result) == Strip(CollapseNewlines(CleanChrome(result)))

\* the lines a converted text is made of in the model: an empty line, a line
\* of text, a line of one space, a line of page chrome
MdLines == {"", "x", " ", "Share"}

\* number of lines of a converted text
MaxLines == 6

MdInputs ==
    {JoinLines(ls) : ls \in UNION {[1..n -> MdLines] : n \in 1..MaxLines}}

InitMd ==
    /\ SyncInit(<<PostQuery>>, <<>>, EmptyStore, FALSE, [cdp |-> TRUE, md |-> TRUE])
    /\ \E r \in MdInputs : nu = [pc |-> "md_input", result |-> r, out |-> ""]

MdApply ==
    /\ nu.pc = "md_input"
    /\ nu' = [nu EXCEPT !.pc = "md_done", !.out = NormalizeText(nu.result)]
    /\ UNCHANGED sync_vars

NextMd == MdApply

SpecMd == InitMd /\ [][NextMd]_vars

\* the lengths of the maximal runs of newlines of s, in order (a run of n + 1
\* newlines between two lines is n blank lines)
RECURSIVE NewlineRuns(_)
NewlineRuns(s) ==
    LET k == FindFrom(s, Newline, 1)
    IN  IF k = 0 THEN <<>>
        ELSE LET e == RunEnd(s, k, {Newline})
             IN  <<e - k + 1>> \o NewlineRuns(SubSeq(s, e + 1, Len(s)))

\* the runs of newlines inside the converted text, the chrome lines removed
RunsIn == NewlineRuns(Strip(CleanChrome(nu.result)))

RunsOut == NewlineRuns(nu.out)

lang_labels ==
    {"javascript", "python", "plain text", "text", "html", "css", "json",
     "typescript", "bash", "shell", "xml", "yaml", "markdown", "sql", "java",
     "c", "c++", "ruby", "go", "rust", "swift", "kotlin", "php", "r", "scala",
     "dart", "lua", "perl", "powershell"}

\* the string of the <code> element made of text: the first line dropped when
\* it is a language label, the rest joined and stripped
CodeString(text) ==
    LET lines == SplitLines(text)
        kept == IF Lower(Strip(lines[1])) \in lang_labels THEN Tail(lines) ELSE lines
    IN  Strip(JoinLines(kept))

\* a variant that reads the text of the element itself, never the list
CodeFromElement(blocks, code_block_texts, n) == blocks[n]

\* the text chosen for the n-th code block (n from 1): the n-th text of the
\* list when there is one, else the text of the element
ChosenText(blocks, code_block_texts, n) ==
    IF code_block_texts # <<>> /\ n <= Len(code_block_texts)
    THEN code_block_texts[n]
    ELSE blocks[n]

\* the loop over the code blocks: blocks holds get_text() of each element in
\* document order, the result holds the string of the <code> that replaces it
preprocess_notion_html(blocks, code_block_texts) ==
    [n \in 1..Len(blocks) |-> CodeString(ChosenText(blocks, code_block_texts, n))]

\* the texts the browser can hand over for a code block
BlockTexts ==
    {"python\nprint(1)", "Python \nprint(1)", "print(1)", "  x = 1\n  y = 2\n",
     "plain text", "pythons\nprint(2)"}

\* the texts BeautifulSoup reads from the elements, by position
ElementTexts == <<"one", "python\ntwo", "three", "four">>

\* number of code-block elements of a page, and of texts in the list
MaxBlocks == 2

InitCode ==
    /\ SyncInit(<<PostQuery>>, <<>>, EmptyStore, FALSE, [cdp |-> TRUE, md |-> TRUE])
    /\ \E n \in 0..MaxBlocks :
       \E ts \in UNION {[1..k -> BlockTexts] : k \in 0..MaxBlocks} :
          nu = [pc |-> "code_input", blocks |-> SubSeq(ElementTexts, 1, n),
                code_block_texts |-> ts, out |-> <<>>]

CodeApply ==
    /\ nu.pc = "code_input"
    /\ nu' = [nu EXCEPT !.pc = "code_done",
                        !.out = preprocess_notion_html(nu.blocks, nu.code_block_texts)]
    /\ UNCHANGED sync_vars

NextCode == CodeApply

SpecCode == InitCode /\ [][NextCode]_vars

\* text up to its first newline
FirstLine(text) ==
    LET k == FindFrom(text, Newline, 1)
    IN  IF k = 0 THEN text ELSE SubSeq(text, 1, k - 1)

\* text without its first line when that line is a language label
WithoutLabel(text) ==
    IF Lower(Strip(FirstLine(text))) \in lang_labels
    THEN SubSeq(text, Len(FirstLine(text)) + 2, Len(text))
    ELSE text

\* C17 (as claimed): the string that replaces the n-th code block is exactly
\* the n-th text of the list, its first line dropped when it is a language
\* label.
C17_ExactText ==
    nu.pc = "code_done" =>
        /\ Len(nu.out) = Len(nu.blocks)
        /\ \A n \in 1..Len(nu.blocks) :
              n <= Len(nu.code_block_texts)
                  => nu.out[n] = WithoutLabel(nu.code_block_texts[n])

\* C17 (amended): the string that replaces the n-th code block is the n-th
\* text of the list, its first line dropped when it is a language label, with
\* the white space at both ends removed; a block beyond the end of the list
\* gets the text of its own element, treated the same way.
C17_StrippedText ==
    nu.pc = "code_done" =>
        /\ Len(nu.out) = Len(nu.blocks)
        /\ \A n \in 1..Len(nu.blocks) :
              nu.out[n] = Strip(WithoutLabel(IF n <= Len(nu.code_block_texts)
                                             THEN nu.code_block_texts[n]
                                             ELSE nu.blocks[n]))

C17_Witness ==
    /\ nu.pc = "code_done"
    /\ Len(nu.blocks) = 2
    /\ nu.code_block_texts = <<"Python \nprint(1)", "  x = 1\n  y = 2\n">>
    /\ nu.out = <<"print(1)", "x = 1\n  y = 2">>

(***************************************************************************)
(* The specification of one call of CDPClient.fetch_html, command by       *)
(* command, with the messages of the browser in flight                     *)
(***************************************************************************)

\* what send can meet: the result asked for, a result without the id asked
\* for, an error response (RuntimeError), an exception of the channel
CdpReplies == {"ok", "no_id", "error", "ws_exception"}

\* the clock ticks of self.timeout: the deadline of the page-load wait and the
\* time-out of one receive on the socket
WaitTicks == 2

\* the events other than the awaited one the browser sends after a navigate
MaxStray == 1

\* fetch_html has not started
CdpStart ==
    [pc |-> "create", created |-> FALSE, close_issued |-> FALSE,
     pending |-> [resp |-> "none", load |-> FALSE, stray |-> 0],
     inbox |-> <<>>, clock |-> 0, deadline |-> 0, wait_start |-> 0,
     wait_end |-> 0, wait_outcome |-> "none", load_lost |-> FALSE,
     raised_at |-> "", close_reply |-> "", html |-> "", texts |-> "",
     result |-> <<>>]

\* an exception leaves fetch_html at step
CdpRaise(step) == [nu EXCEPT !.pc = "raised", !.raised_at = step]

InitCdp ==
    /\ SyncInit(<<PostQuery>>, <<>>, EmptyStore, TRUE, [cdp |-> TRUE, md |-> TRUE])
    /\ nu = CdpStart

\* Target.createTarget and the test of targetId
CdpCreateTarget(reply) ==
    /\ nu.pc = "create"
    /\ nu' = IF reply = "ok" THEN [nu EXCEPT !.pc = "attach", !.created = TRUE]
             ELSE CdpRaise("create")
    /\ UNCHANGED sync_vars

\* Target.attachToTarget and the test of sessionId
CdpAttach(reply) ==
    /\ nu.pc = "attach"
    /\ nu' = IF reply = "ok" THEN [nu EXCEPT !.pc = "enable"] ELSE CdpRaise("attach")
    /\ UNCHANGED sync_vars

\* Page.enable (its result is not read)
CdpEnable(reply) ==
    /\ nu.pc = "enable"
    /\ nu' = IF reply \in {"ok", "no_id"} THEN [nu EXCEPT !.pc = "navigate"]
             ELSE CdpRaise("enable")
    /\ UNCHANGED sync_vars

\* send of Page.navigate up to ws.send: the browser will answer ok or with an
\* error, may fire the load event, and sends other events
CdpSendNavigate(sent, resp, load, stray) ==
    /\ nu.pc = "navigate"
    /\ nu' = IF sent
             THEN [nu EXCEPT !.pc = "nav_wait",
                             !.pending = [resp |-> resp, load |-> load,
                                          stray |-> stray]]
             ELSE CdpRaise("navigate")
    /\ UNCHANGED sync_vars

\* the browser sends one of the messages it still has to send
BrowserEmit(m) ==
    /\ nu.pc \in {"nav_wait", "load_wait"}
    /\ \/ m \in {"resp_ok", "resp_error"} /\ nu.pending.resp = m
          /\ nu' = [nu EXCEPT !.pending.resp = "none", !.inbox = Append(@, m)]
       \/ m = "load" /\ nu.pending.load
          /\ nu' = [nu EXCEPT !.pending.load = FALSE, !.inbox = Append(@, m)]
       \/ m = "other" /\ nu.pending.stray > 0
          /\ nu' = [nu EXCEPT !.pending.stray = @ - 1, !.inbox = Append(@, m)]
    /\ UNCHANGED sync_vars

\* one ws.recv of the loop of send for Page.navigate: the response ends the
\* loop, any other message is dropped
CdpNavRecv ==
    /\ nu.pc = "nav_wait"
    /\ nu.inbox # <<>>
    /\ LET m == Head(nu.inbox)
           rest == [nu EXCEPT !.inbox = Tail(@)]
       IN  nu' = IF m = "resp_ok"
                 THEN [rest EXCEPT !.pc = "load_wait", !.wait_start = nu.clock,
                                   !.deadline = nu.clock + WaitTicks]
                 ELSE IF m = "resp_error"
                 THEN [rest EXCEPT !.pc = "raised", !.raised_at = "navigate"]
                 ELSE [rest EXCEPT !.load_lost = @ \/ m = "load"]
    /\ UNCHANGED sync_vars

\* ws.recv of the loop of send raises: nothing came before the socket timed out
CdpNavRecvFails ==
    /\ nu.pc = "nav_wait"
    /\ nu.inbox = <<>>
    /\ nu' = CdpRaise("navigate")
    /\ UNCHANGED sync_vars

\* a variant without the except TimeoutError of fetch_html
AfterWaitTimeoutUncaught == "raised"

\* where fetch_html goes when recv_event_until raises TimeoutError
AfterWaitTimeout == "settle"

\* one ws.recv of recv_event_until that returns a message after d ticks: the
\* awaited event ends the wait, any other message is dropped
CdpLoadRecv(d) ==
    /\ nu.pc = "load_wait"
    /\ nu.clock < nu.deadline
    /\ nu.inbox # <<>>
    /\ LET m == Head(nu.inbox)
           rest == [nu EXCEPT !.inbox = Tail(@), !.clock = @ + d]
       IN  nu' = IF m = "load"
                 THEN [rest EXCEPT !.pc = "settle", !.wait_outcome = "signaled",
                                   !.wait_end = nu.clock + d]
                 ELSE rest
    /\ UNCHANGED sync_vars

\* one ws.recv of recv_event_until that raises after d ticks (at the latest
\* when the socket times out): the exception is dropped, the loop goes on
CdpLoadRecvFails(d) ==
    /\ nu.pc = "load_wait"
    /\ nu.clock < nu.deadline
    /\ nu.inbox = <<>>
    /\ nu' = [nu EXCEPT !.clock = @ + d]
    /\ UNCHANGED sync_vars

\* the deadline has passed: TimeoutError, which fetch_html drops
CdpLoadDeadline ==
    /\ nu.pc = "load_wait"
    /\ nu.clock >= nu.deadline
    /\ nu' = [nu EXCEPT !.pc = AfterWaitTimeout,
                        !.raised_at = IF AfterWaitTimeout = "raised" THEN "wait" ELSE @,
                        !.wait_outcome = "timed_out", !.wait_end = nu.clock]
    /\ UNCHANGED sync_vars

\* time.sleep(extra_wait); the messages still in flight are read and dropped
\* by the sends that follow
CdpSettle ==
    /\ nu.pc = "settle"
    /\ nu' = [nu EXCEPT !.pc = "eval_html", !.inbox = <<>>]
    /\ UNCHANGED sync_vars

\* Runtime.evaluate of outerHTML
CdpEvalHtml(reply) ==
    /\ nu.pc = "eval_html"
    /\ nu' = IF reply = "ok" THEN [nu EXCEPT !.pc = "eval_code", !.html = "html"]
             ELSE IF reply = "no_id" THEN [nu EXCEPT !.pc = "eval_code", !.html = ""]
             ELSE CdpRaise("eval_html")
    /\ UNCHANGED sync_vars

\* Runtime.evaluate of the code blocks, inside try/except
CdpEvalCode(reply) ==
    /\ nu.pc = "eval_code"
    /\ nu' = [nu EXCEPT !.pc = "close",
                        !.texts = IF reply = "ok" THEN "texts" ELSE "[]"]
    /\ UNCHANGED sync_vars

\* a variant without the try/except around Target.closeTarget
AfterCloseUnguarded(reply) == IF reply \in {"ok", "no_id"} THEN "returned" ELSE "raised"

\* where fetch_html goes after Target.closeTarget
AfterClose(reply) == "returned"

\* Target.closeTarget inside try/except, and the return
CdpClose(reply) ==
    /\ nu.pc = "close"
    /\ nu' = [nu EXCEPT !.pc = AfterClose(reply),
                        !.raised_at = IF AfterClose(reply) = "raised" THEN "close" ELSE @,
                        !.close_issued = TRUE,
                        !.close_reply = reply,
                        !.result = IF AfterClose(reply) = "returned"
                                   THEN <<nu.html, nu.texts>> ELSE <<>>]
    /\ UNCHANGED sync_vars

NextCdp ==
    \/ \E reply \in CdpReplies : CdpCreateTarget(reply)
    \/ \E reply \in CdpReplies : CdpAttach(reply)
    \/ \E reply \in CdpReplies : CdpEnable(reply)
    \/ \E sent \in BOOLEAN, resp \in {"resp_ok", "resp_error"}, load \in BOOLEAN,
          stray \in 0..MaxStray : CdpSendNavigate(sent, resp, load, stray)
    \/ \E m \in {"resp_ok", "resp_error", "load", "other"} : BrowserEmit(m)
    \/ CdpNavRecv
    \/ CdpNavRecvFails
    \/ \E d \in 0..1 : CdpLoadRecv(d)
    \/ \E d \in 1..WaitTicks : CdpLoadRecvFails(d)
    \/ CdpLoadDeadline
    \/ CdpSettle
    \/ \E reply \in CdpReplies : CdpEvalHtml(reply)
    \/ \E reply \in CdpReplies : CdpEvalCode(reply)
    \/ \E reply \in CdpReplies : CdpClose(reply)

SpecCdp == InitCdp /\ [][NextCdp]_vars

(***************************************************************************)
(* Properties of the page fetch                                            *)
(***************************************************************************)

\* the page-load wait is over
WaitOver == nu.wait_outcome # "none"

\* one receive of the wait can be taken, or its deadline has passed
WaitCanStep ==
    \/ ENABLED (\E d \in 0..1 : CdpLoadRecv(d))
    \/ ENABLED (\E d \in 1..WaitTicks : CdpLoadRecvFails(d))
    \/ ENABLED CdpLoadDeadline

\* the wait leaves fetch_html only towards the settle delay, and the settle
\* delay towards the extraction of the HTML
WaitProceeds ==
    /\ nu.pc = "load_wait" => nu'.pc \in {"load_wait", "settle"}
    /\ nu.pc = "settle" => nu'.pc = "eval_html"

\* C21 as stated: under every interleaving of the load event with the navigate
\* response the wait ends within the timeout, raises nothing past fetch_html,
\* and fetch_html goes on to the settle delay and the extraction
C21_WaitWithinTimeout ==
    /\ nu.raised_at # "wait"
    /\ WaitOver => nu.wait_end - nu.wait_start <= WaitTicks

\* C21 amended: the wait raises nothing past fetch_html, can always take a
\* step, goes on to the settle delay and the extraction, and ends before
\* twice the timeout: the deadline is read between two receives, and a
\* receive begun before the deadline can last the whole socket time-out
C21_WaitBestEffort ==
    /\ [](/\ nu.raised_at # "wait"
          /\ nu.pc = "load_wait" => WaitCanStep
          /\ nu.pc = "load_wait" => nu.clock - nu.wait_start < 2 * WaitTicks
          /\ WaitOver => nu.wait_end - nu.wait_start < 2 * WaitTicks
          /\ WaitOver => nu.pc \notin {"create", "attach", "enable", "navigate",
                                       "nav_wait", "load_wait"})
    /\ [][WaitProceeds]_vars

\* the load event was dropped by send, the wait timed out, and the HTML was
\* extracted all the same
C21_Witness ==
    /\ nu.load_lost
    /\ nu.wait_outcome = "timed_out"
    /\ nu.pc = "eval_code"
    /\ nu.html = "html"

\* C22: a failure of Target.closeTarget (error response or exception of the
\* channel) is swallowed: fetch_html returns the pair (html, code block
\* texts) it extracted and raises nothing
C22_CloseFailureSwallowed ==
    /\ nu.raised_at # "close"
    /\ nu.close_reply \in {"error", "ws_exception"} =>
          /\ nu.pc = "returned"
          /\ nu.raised_at = ""
          /\ nu.result = <<nu.html, nu.texts>>

C22_Witness ==
    /\ nu.close_reply \in {"error", "ws_exception"}
    /\ nu.pc = "returned"
    /\ nu.result = <<"html", "texts">>

\* C23: when fetch_html has returned or raised, a close command was issued
\* for the page it created
C23_EveryPageClosed ==
    nu.pc \in {"returned", "raised"} /\ nu.created => nu.close_issued

====
